---- MODULE Spec2Model ----
(***************************************************************************)
(* The pipelined staging engine of BytePS (operations.cc): partitioning,   *)
(* the per-stage scheduled queues, the stage loops of the root and of the  *)
(* non-root local ranks, the signal channel between them, the NCCL group   *)
(* hand-off to SyncNccl, the parameter-server continuations and shutdown.  *)
(* Every local rank is a process of its own; rank 0 is the root.           *)
(***************************************************************************)
EXTENDS Integers, Sequences, FiniteSets, TLC

\* ------------------------------------------------------------------ bounds
MaxLocalSize == 2     \* local ranks per node
MaxParts     == 2     \* partitions of the tensor in the pipeline runs
MaxGroupSize == 2     \* nccl group size
MaxTensorSize == 9    \* tensor byte sizes of the enqueue-only runs
MaxBound     == 3     \* partition bounds of the enqueue-only runs
MaxKeys      == 4     \* |context.key_list| of the enqueue-only runs
PipelineBound == 2    \* partition bound of the pipeline runs
MaxWideSize  == 17    \* tensor sizes of the wide runs, in units of 2^28 bytes
PartCap      == 24    \* partitions the process has memory for
MaxEnqueues  == 2     \* calls of EnqueueTensor on one context

\* --------------------------------------------------------------- constants
CPU_DEVICE_ID == -1
GPU_DEVICE_ID == 0
Root == 0

QueueTypes == {"COORDINATE_REDUCE", "REDUCE", "COPYD2H", "PUSH", "PULL",
               "COPYH2D", "COORDINATE_BROADCAST", "BROADCAST"}
LoopNames  == {"CoordinateReduceLoop", "CoordinateBroadcastLoop", "RootNcclLoop",
               "NonRootNcclLoop", "SyncNcclLoop", "CopyDevice2HostLoop",
               "PushLoop", "PullLoop", "CopyHost2DeviceLoop"}

VARIABLES
    \* BytePSGlobal configuration, fixed by Init
    localSize,      \* GetLocalSize()
    distributed,    \* IsDistributedJob()
    groupSize,      \* GetNcclGroupSize()
    bound,          \* GetPartitionBound()
    word,           \* 2^32 in the size unit of the run; 0 when the unit is the
                    \* byte, where no size of the run comes near 2^31
    intOverflow,    \* what the build makes of a signed overflow: "wrap" or "wide"
    \* arguments of EnqueueTensor, the same tensor on every local rank
    tsize,          \* input->size()
    osize,          \* output->size()
    keyList,        \* context.key_list
    device,         \* device argument
    alias,          \* TRUE iff output is the same buffer as input
    qlist,          \* qlist[r]: queue_list argument on rank r
    \* EnqueueTensor in progress
    enq,            \* enq[r]: "idle", "adding" or "done"
    parts,          \* parts[r]: partitions made by PartitionTensor
    enqI,           \* enqI[r]: loop index i of EnqueueTensor (1-based)
    accum,          \* accum[r]: accumulated of EnqueueTensor
    \* work items and queues
    task,           \* task[r]: sequence of TensorTableEntry, index = item id
    queue,          \* queue[r][q]: items on the scheduled queue q
    counter,        \* counter[r][e]: *counter_ptr of enqueue e
    cb,             \* cb[r][e]: statuses the callback of enqueue e was called with
    visited,        \* visited[r][t]: queues item t was placed on, in order
    finish,         \* finish[r][q]: number of reportFinish calls on queue q
    aborted,        \* aborted[r]: "" or the BPS_CHECK that terminated the process
    \* stage loops
    live,           \* live[r]: stage loop threads started and not returned
    coordHold,      \* coordHold[r][op]: item a Coordinate loop advanced, signal unsent
    chan,           \* chan[r]: signals in flight to rank r, in order
    rootOpen,       \* <<>> or the group the root has announced and not closed
    nrTasks,        \* nrTasks[r]: tasks of the NCCL group open on non-root r
    nrCalls,        \* nrCalls[r]: collective calls of the group open on non-root r
    ncclLog,        \* ncclLog[r]: the closed NCCL groups, each a sequence of calls
    ncclDone,       \* collectives the communicator has executed
    ncclGroup,      \* ncclGroup[r]: NcclGroupEntry queue handed to SyncNccl
    syncHold,       \* syncHold[r]: <<>> or <<entry, i>> of RunSyncNcclOnce
    psPending,      \* ZPush/ZPull requests whose continuation has not run
    \* buffers
    mem,            \* mem[r][b][w]: window w of buffer b ("in", "out") on rank r
    cpubuff,        \* cpubuff[w]: window w of the root's pinned host buffer
    store,          \* store[k]: the server's value of key k
    \* shutdown
    shutdownFlag,   \* shutdownFlag[r]: ShouldShutdown()
    shutdownDone    \* shutdownDone[r]: byteps_shutdown() has returned

cfgVars == <<localSize, distributed, groupSize, bound, word, intOverflow, tsize, osize, keyList,
             device, alias, qlist>>
enqVars == <<enq, parts, enqI, accum>>
itemVars == <<task, queue, counter, cb, visited, finish, aborted>>
loopVars == <<live, coordHold, chan, rootOpen, nrTasks, nrCalls, ncclLog, ncclDone,
              ncclGroup, syncHold, psPending>>
bufVars == <<mem, cpubuff, store>>
downVars == <<shutdownFlag, shutdownDone>>
vars == <<cfgVars, enqVars, itemVars, loopVars, bufVars, downVars>>

Ranks == 0 .. (localSize - 1)
NonRoots == Ranks \ {Root}
IsRoot(r) == r = Root

Min(a, b) == IF a < b THEN a ELSE b
Range(s) == {s[i] : i \in 1 .. Len(s)}

RECURSIVE Pow2(_)
Pow2(n) == IF n = 0 THEN 1 ELSE 2 * Pow2(n - 1)

RECURSIVE SumOver(_, _)
SumOver(S, f) ==
    IF S = {} THEN 0
    ELSE LET x == CHOOSE y \in S : TRUE IN f[x] + SumOver(S \ {x}, f)

\* ---------------------------------------------------------------------- keys
\* A key is a 64-bit value, kept as its two 32-bit words: hi * 2^32 + lo.
\* The low words of all runs are below 2^31.
Key(hi, lo) == [hi |-> hi, lo |-> lo]
NoKey == Key(0, 0)
\* lines 58 and 107, `int key = task->key`: the conversion keeps the low word
ToInt(key) == key.lo
\* an int key handed to getTask(key) is widened to a key again
FromInt(k) == Key(0, k)

\* ------------------------------------------------------- 32-bit arithmetic
\* 2^32 bytes in units of 2^28 bytes
WordUnits == 16
\* the value of x in an unsigned int
ToUInt32(x) == IF word = 0 THEN x ELSE x % word
\* the value of x in an int, two's complement
ToInt32(x) ==
    IF word = 0 THEN x
    ELSE IF (x % word) >= (word \div 2) THEN (x % word) - word ELSE x % word
\* line 533, `accumulated += e->len` on an int: an overflow is undefined; the
\* build either wraps the int or keeps the sum in a wider register
AddInt(a, b) == IF intOverflow = "wrap" THEN ToInt32(a + b) ELSE a + b
\* line 592, `accumulated += task->len` on an unsigned int
AddUInt(a, b) == ToUInt32(a + b)

\* ------------------------------------------------------------ partitioning
\* e->len of PartitionTensor
PartLen_Mut(size, accumulated, bnd) == bnd
PartLen(size, accumulated, bnd) ==
    IF (size - accumulated) > bnd THEN bnd ELSE (size - accumulated)

\* line 522: tensor_name + "_" + to_string(i), kept as the suffix i
PartName_Mut(i) == 0
PartName(i) == i

\* the while loop of PartitionTensor, from the running offset `accumulated`
\* and the running index i; every partition copies the fields of the entry
\* (enq stands for the counter_ptr and the callback of the enqueue) and its
\* key is not assigned yet
RECURSIVE PartitionFrom(_, _, _, _)
PartitionFrom(entry, accumulated, i, bnd) ==
    IF accumulated < entry.size /\ i < PartCap
    THEN LET len == PartLen(entry.size, accumulated, bnd)
         IN <<[name |-> PartName(i), key |-> NoKey, enq |-> entry.enq,
               total_partnum |-> entry.total_partnum, device |-> entry.device,
               queue_list |-> entry.queue_list, offset |-> accumulated,
               len |-> len]>>
              \o PartitionFrom(entry, AddInt(accumulated, len), i + 1, bnd)
    ELSE <<>>

PartitionTensor(entry, bnd) == PartitionFrom(entry, 0, 0, bnd)

\* the loop of PartitionTensor is still running when memory is used up
OutOfMemory(entry, partitions) ==
    /\ Len(partitions) = PartCap
    /\ AddInt(partitions[PartCap].offset, partitions[PartCap].len) < entry.size

\* ---------------------------------------------------------- scheduled queue
addTask(q, t) == Append(q, t)
RemoveAt(q, i) == SubSeq(q, 1, i - 1) \o SubSeq(q, i + 1, Len(q))

\* -------------------------------------------------------- FinishOrProceed
EraseHead_Mut(ql) == IF Len(ql) > 1 THEN Tail(Tail(ql)) ELSE Tail(ql)
EraseHead(ql) == Tail(ql)

\* line 37: the queue of the stage the list now begins with
NextQueue_Mut(ql) == ql[Len(ql)]
NextQueue(ql) == ql[1]

CallbackDue_Mut(v, total_partnum) == TRUE
CallbackDue(v, total_partnum) == v = total_partnum - 1

\* the state of rank r that FinishOrProceed reads and writes
RankState(r) ==
    [task |-> task[r], queue |-> queue[r], counter |-> counter[r], cb |-> cb[r],
     visited |-> visited[r], finish |-> finish[r], abort |-> aborted[r]]

FinishOrProceed(st, t) ==
    LET ql  == st.task[t].queue_list
        nql == EraseHead(ql)
        e   == st.task[t].enq
        v   == st.counter[e]
    IN  IF st.abort # "" THEN st
        ELSE IF Len(ql) < 1 THEN [st EXCEPT !.abort = "queue_list.size() >= 1"]
        ELSE IF Len(nql) > 0
        THEN [st EXCEPT !.task[t].queue_list = nql,
                        !.queue[NextQueue(nql)] = addTask(@, t),
                        !.visited[t] = Append(@, NextQueue(nql))]
        ELSE [st EXCEPT !.task[t].queue_list = nql,
                        !.counter[e] = v + 1,
                        !.cb[e] = IF CallbackDue(v, st.task[t].total_partnum)
                                  THEN Append(@, "OK") ELSE @]

reportFinish(st, q) == [st EXCEPT !.finish[q] = @ + 1]

Commit(r, st) ==
    /\ task' = [task EXCEPT ![r] = st.task]
    /\ queue' = [queue EXCEPT ![r] = st.queue]
    /\ counter' = [counter EXCEPT ![r] = st.counter]
    /\ cb' = [cb EXCEPT ![r] = st.cb]
    /\ visited' = [visited EXCEPT ![r] = st.visited]
    /\ finish' = [finish EXCEPT ![r] = st.finish]
    /\ aborted' = [aborted EXCEPT ![r] = st.abort]

\* ------------------------------------------------------------ stage loops
\* the loops byteps_init starts on rank r
StartedLoops(r) ==
    IF IsRoot(r)
    THEN {"RootNcclLoop", "SyncNcclLoop"} \cup
         (IF distributed
          THEN {"CopyDevice2HostLoop", "PushLoop", "PullLoop", "CopyHost2DeviceLoop"}
          ELSE {})
    ELSE {"CoordinateReduceLoop", "NonRootNcclLoop", "SyncNcclLoop",
          "CoordinateBroadcastLoop"}

\* the loop condition `RunXxxOnce() && !ShouldShutdown()` after an iteration
KeepLooping(r) == ~shutdownFlag[r]
AfterIteration(r, loop) ==
    live' = [live EXCEPT ![r] = IF KeepLooping(r) THEN @ ELSE @ \ {loop}]

Running(r, loop) == loop \in live[r] /\ aborted[r] = ""


\* ----------------------------------------------------------- EnqueueTensor
\* line 573: the enqueue has no stage to go through
SkipEnqueue_Mut(ql) == FALSE
SkipEnqueue(ql) == Len(ql) = 0

\* lines 548-578: the size check, the entry, PartitionTensor, the key_list
\* check and the empty queue_list case
EnqueueCall(r) ==
    /\ aborted[r] = "" /\ ~shutdownFlag[r]
    /\ LET e == Len(counter[r]) + 1
           entry == [size |-> tsize, enq |-> e, total_partnum |-> Len(keyList),
                     device |-> device, queue_list |-> qlist[r]]
           partitions == PartitionTensor(entry, bound)
       IN  IF tsize # osize
           THEN /\ aborted' = [aborted EXCEPT
                                 ![r] = "input->size() == output->size()"]
                /\ UNCHANGED <<counter, cb, enq, parts, enqI, accum>>
           ELSE
           /\ counter' = [counter EXCEPT ![r] = Append(@, 0)]
           /\ IF OutOfMemory(entry, partitions)
              THEN /\ aborted' = [aborted EXCEPT ![r] = "std::bad_alloc"]
                   /\ cb' = [cb EXCEPT ![r] = Append(@, <<>>)]
                   /\ parts' = [parts EXCEPT ![r] = partitions]
                   /\ UNCHANGED <<enq, enqI, accum>>
              ELSE IF Len(keyList) # Len(partitions)
              THEN /\ aborted' = [aborted EXCEPT
                                    ![r] = "key_list.size() == partitions.size()"]
                   /\ cb' = [cb EXCEPT ![r] = Append(@, <<>>)]
                   /\ parts' = [parts EXCEPT ![r] = partitions]
                   /\ UNCHANGED <<enq, enqI, accum>>
              ELSE IF SkipEnqueue(qlist[r])
              THEN /\ cb' = [cb EXCEPT ![r] = Append(@, <<"OK">>)]
                   /\ enq' = [enq EXCEPT ![r] = "done"]
                   /\ parts' = [parts EXCEPT ![r] = partitions]
                   /\ UNCHANGED <<enqI, accum, aborted>>
              ELSE /\ cb' = [cb EXCEPT ![r] = Append(@, <<>>)]
                   /\ parts' = [parts EXCEPT ![r] = partitions]
                   /\ enqI' = [enqI EXCEPT ![r] = 1]
                   /\ accum' = [accum EXCEPT ![r] = 0]
                   /\ IF Len(partitions) = 0
                      THEN IF 0 = tsize
                           THEN /\ enq' = [enq EXCEPT ![r] = "done"]
                                /\ UNCHANGED aborted
                           ELSE /\ aborted' = [aborted EXCEPT
                                                 ![r] = "accumulated == size"]
                                /\ UNCHANGED enq
                      ELSE /\ enq' = [enq EXCEPT ![r] = "adding"]
                           /\ UNCHANGED aborted
    /\ UNCHANGED <<cfgVars, task, queue, visited, finish, loopVars, bufVars, downVars>>

\* the first call of EnqueueTensor on the context
EnqueueBegin(r) == enq[r] = "idle" /\ EnqueueCall(r)

\* a further call of EnqueueTensor on the same context, made after the last
\* call returned; lines 541-599 do not look at the items still in flight
EnqueueTensorAgain(r) ==
    /\ enq[r] = "done"
    /\ Len(counter[r]) < MaxEnqueues
    /\ EnqueueCall(r)

\* lines 581-595: one pass of the loop that keys and enqueues partition i,
\* and after the last pass the check of the accumulated length
EnqueueAdd(r) ==
    /\ enq[r] = "adding" /\ aborted[r] = ""
    /\ IF qlist[r] = <<>>
       THEN /\ aborted' = [aborted EXCEPT ![r] = "queue_list.at(0)"]
            /\ UNCHANGED <<task, queue, visited, accum, enqI, enq>>
       ELSE
       LET i == enqI[r]
           p == parts[r][i]
           q == qlist[r][1]
           t == Len(task[r]) + 1
           item == [p EXCEPT !.key = keyList[i]]
           acc == AddUInt(accum[r], p.len)
       IN  /\ task' = [task EXCEPT ![r] = Append(@, item)]
           /\ queue' = [queue EXCEPT ![r][q] = addTask(@, t)]
           /\ visited' = [visited EXCEPT ![r] = Append(@, <<q>>)]
           /\ accum' = [accum EXCEPT ![r] = acc]
           /\ IF i < Len(parts[r])
              THEN /\ enqI' = [enqI EXCEPT ![r] = i + 1]
                   /\ UNCHANGED <<enq, aborted>>
              ELSE /\ enqI' = [enqI EXCEPT ![r] = i + 1]
                   /\ IF acc = tsize
                      THEN /\ enq' = [enq EXCEPT ![r] = "done"]
                           /\ UNCHANGED aborted
                      ELSE /\ aborted' = [aborted EXCEPT ![r] = "accumulated == size"]
                           /\ UNCHANGED enq
    /\ UNCHANGED <<cfgVars, parts, counter, cb, finish, loopVars, bufVars, downVars>>

\* ---------------------------------------------------- RunCoordinateLoopOnce
CoordLoop(op) == IF op = "COORDINATE_REDUCE" THEN "CoordinateReduceLoop"
                 ELSE "CoordinateBroadcastLoop"
ReadySignal(op) == IF op = "COORDINATE_REDUCE" THEN "REDUCE_READY" ELSE "BCAST_READY"

\* lines 51-62: getTask and FinishOrProceed, before the signal
CoordinateProceed(r, op) ==
    /\ Running(r, CoordLoop(op)) /\ ~IsRoot(r)
    /\ coordHold[r][op] = 0
    /\ queue[r][op] # <<>>
    /\ LET t == Head(queue[r][op])
           st0 == [RankState(r) EXCEPT !.queue[op] = Tail(@)]
       IN  /\ Commit(r, FinishOrProceed(st0, t))
           /\ coordHold' = [coordHold EXCEPT ![r][op] = t]
    /\ UNCHANGED <<cfgVars, enqVars, live, chan, rootOpen, nrTasks, nrCalls, ncclLog, ncclDone,
                   ncclGroup, syncHold, psPending, bufVars, downVars>>

\* lines 64-74: sendSignal to the root and reportFinish; then the loop condition
CoordinateSignal(r, op) ==
    /\ Running(r, CoordLoop(op))
    /\ coordHold[r][op] # 0
    /\ LET t == coordHold[r][op]
           msg == [src |-> r, signal |-> ReadySignal(op), key |-> ToInt(task[r][t].key)]
       IN  /\ chan' = [chan EXCEPT ![Root] = Append(@, msg)]
           /\ Commit(r, reportFinish(RankState(r), op))
    /\ coordHold' = [coordHold EXCEPT ![r][op] = 0]
    /\ AfterIteration(r, CoordLoop(op))
    /\ UNCHANGED <<cfgVars, enqVars, rootOpen, nrTasks, nrCalls, ncclLog, ncclDone,
                   ncclGroup, syncHold, psPending, bufVars, downVars>>

\* ------------------------------------------------------ RunRootNcclLoopOnce
DoSignal(op) == IF op = "REDUCE" THEN "DO_REDUCE" ELSE "DO_BROADCAST"
TakeUpTo(q, n) == SubSeq(q, 1, Min(n, Len(q)))
Drop(q, n) == SubSeq(q, n + 1, Len(q))

\* line 111 and line 125: the item gets a signal and a collective call
RootNotifies_Mut(dev) == dev # CPU_DEVICE_ID
RootNotifies(dev) == dev # CPU_DEVICE_ID /\ localSize > 1

\* the calls a rank has launched on its NCCL stream: its closed groups, in order
RECURSIVE Flatten(_)
Flatten(groups) == IF groups = <<>> THEN <<>> ELSE Head(groups) \o Flatten(Tail(groups))
Stream(r) == Flatten(ncclLog[r])

\* lines 95-148: what the two loops over nccl_ops pull off the queues, the
\* collective calls and the signals made for it, and the entry built
RootGroup ==
    LET r == Root
        red == TakeUpTo(queue[r]["REDUCE"], groupSize)
        bc == TakeUpTo(queue[r]["BROADCAST"], groupSize)
        pulled == [i \in 1 .. Len(red) |-> [t |-> red[i], op |-> "REDUCE"]]
                    \o [i \in 1 .. Len(bc) |-> [t |-> bc[i], op |-> "BROADCAST"]]
        coll == SelectSeq(pulled, LAMBDA p : RootNotifies(task[r][p.t].device))
    IN  [red |-> Len(red), bc |-> Len(bc),
         calls |-> [i \in 1 .. Len(coll) |->
                       [key |-> ToInt(task[r][coll[i].t].key), op |-> coll[i].op,
                        t |-> coll[i].t]],
         msgs |-> [i \in 1 .. Len(coll) |->
                       [src |-> r, signal |-> DoSignal(coll[i].op),
                        key |-> ToInt(task[r][coll[i].t].key)]]
                    \o <<[src |-> r, signal |-> "DO_GROUP", key |-> 0]>>,
         entry |-> [tasks |-> [i \in 1 .. Len(pulled) |-> pulled[i].t],
                    queues |-> [i \in 1 .. Len(pulled) |-> pulled[i].op],
                    event |-> Len(Stream(r)) + Len(coll)]]

\* an iteration that pulls at least one item: lines 95-157
RunRootNcclLoopOnce ==
    /\ Running(Root, "RootNcclLoop")
    /\ rootOpen = <<>>
    /\ LET r == Root
           g == RootGroup
       IN  /\ Len(g.entry.tasks) > 0
           /\ queue' = [queue EXCEPT ![r]["REDUCE"] = Drop(@, g.red),
                                     ![r]["BROADCAST"] = Drop(@, g.bc)]
           /\ chan' = [x \in DOMAIN chan |->
                          IF x \in NonRoots THEN chan[x] \o g.msgs ELSE chan[x]]
           /\ ncclLog' = [ncclLog EXCEPT ![r] = Append(@, g.calls)]
           /\ ncclGroup' = [ncclGroup EXCEPT ![r] = Append(@, g.entry)]
    /\ AfterIteration(Root, "RootNcclLoop")
    /\ UNCHANGED <<cfgVars, enqVars, task, counter, cb, visited, finish, aborted,
                   coordHold, rootOpen, nrTasks, nrCalls, ncclDone, syncHold, psPending,
                   bufVars, downVars>>

\* The same iteration in two steps, for the order of its effects as other
\* ranks see them.  Lines 95-151: the items are pulled, their signals and
\* then DO_GROUP are broadcast; the root's NCCL group is still open.
RootNcclBroadcast ==
    /\ Running(Root, "RootNcclLoop")
    /\ rootOpen = <<>>
    /\ LET r == Root
           g == RootGroup
       IN  /\ Len(g.entry.tasks) > 0
           /\ queue' = [queue EXCEPT ![r]["REDUCE"] = Drop(@, g.red),
                                     ![r]["BROADCAST"] = Drop(@, g.bc)]
           /\ chan' = [x \in DOMAIN chan |->
                          IF x \in NonRoots THEN chan[x] \o g.msgs ELSE chan[x]]
           /\ rootOpen' = [calls |-> g.calls, entry |-> g.entry]
    /\ UNCHANGED <<cfgVars, enqVars, task, counter, cb, visited, finish, aborted,
                   live, coordHold, nrTasks, nrCalls, ncclLog, ncclDone, ncclGroup,
                   syncHold, psPending, bufVars, downVars>>

\* lines 153-156: ncclGroupEnd launches the calls of the group, the event is
\* recorded behind them and the entry is handed to SyncNccl
RootNcclGroupEnd ==
    /\ Running(Root, "RootNcclLoop")
    /\ rootOpen # <<>>
    /\ ncclLog' = [ncclLog EXCEPT ![Root] = Append(@, rootOpen.calls)]
    /\ ncclGroup' = [ncclGroup EXCEPT ![Root] = Append(@, rootOpen.entry)]
    /\ rootOpen' = <<>>
    /\ AfterIteration(Root, "RootNcclLoop")
    /\ UNCHANGED <<cfgVars, enqVars, itemVars, coordHold, chan, nrTasks, nrCalls,
                   ncclDone, syncHold, psPending, bufVars, downVars>>

\* --------------------------------------------------- RunNonRootNcclLoopOnce
\* lines 183-189; "" stands for the failed BPS_CHECK_EQ(msg.signal, DO_REDUCE)
NonRootOp_Mut(signal) == "REDUCE"
NonRootOp(signal) ==
    IF signal = "DO_BROADCAST" THEN "BROADCAST"
    ELSE IF signal = "DO_REDUCE" THEN "REDUCE" ELSE ""

\* line 182: the signal that ends the while(1) loop and closes the group
ClosesGroup_Mut(signal) == signal # "DO_BROADCAST"
ClosesGroup(signal) == signal = "DO_GROUP"

\* getTask(key): the position on q of the first item with that key, or 0
KeyedIndex(r, q, key) ==
    LET hits == {i \in 1 .. Len(q) : task[r][q[i]].key = FromInt(key)}
    IN  IF hits = {} THEN 0 ELSE CHOOSE i \in hits : \A j \in hits : i <= j

\* one pass of the while(1) loop: recvSignal and what follows it
NonRootRecv(r) ==
    /\ Running(r, "NonRootNcclLoop") /\ ~IsRoot(r)
    /\ chan[r] # <<>>
    /\ LET msg == Head(chan[r])
           op == NonRootOp(msg.signal)
           q == queue[r][op]
           k == KeyedIndex(r, q, msg.key)
           t == q[k]
           calls == IF task[r][t].device # CPU_DEVICE_ID
                    THEN <<[key |-> msg.key, op |-> op, t |-> t]>> ELSE <<>>
           die(why) == /\ aborted' = [aborted EXCEPT ![r] = why]
                       /\ UNCHANGED <<queue, nrTasks, nrCalls, ncclLog, ncclGroup, live>>
       IN  /\ chan' = [chan EXCEPT ![r] = Tail(@)]
           /\ IF msg.src # Root THEN die("src == root")
              ELSE IF ClosesGroup(msg.signal)
              THEN /\ ncclLog' = [ncclLog EXCEPT ![r] = Append(@, nrCalls[r])]
                   /\ ncclGroup' = [ncclGroup EXCEPT ![r] = Append(@,
                          [tasks |-> nrTasks[r], queues |-> <<>>,
                           event |-> Len(Stream(r)) + Len(nrCalls[r])])]
                   /\ nrTasks' = [nrTasks EXCEPT ![r] = <<>>]
                   /\ nrCalls' = [nrCalls EXCEPT ![r] = <<>>]
                   /\ AfterIteration(r, "NonRootNcclLoop")
                   /\ UNCHANGED <<queue, aborted>>
              ELSE IF op = "" THEN die("msg.signal == DO_REDUCE")
              ELSE IF k = 0 THEN die("task")
              ELSE IF Len(task[r][t].queue_list) # 1
              THEN /\ aborted' = [aborted EXCEPT ![r] = "queue_list.size() == 1"]
                   /\ queue' = [queue EXCEPT ![r][op] = RemoveAt(@, k)]
                   /\ UNCHANGED <<nrTasks, nrCalls, ncclLog, ncclGroup, live>>
              ELSE /\ queue' = [queue EXCEPT ![r][op] = RemoveAt(@, k)]
                   /\ nrTasks' = [nrTasks EXCEPT ![r] = Append(@, t)]
                   /\ nrCalls' = [nrCalls EXCEPT ![r] = @ \o calls]
                   /\ UNCHANGED <<aborted, ncclLog, ncclGroup, live>>
    /\ UNCHANGED <<cfgVars, enqVars, task, counter, cb, visited, finish, coordHold,
                   rootOpen, ncclDone, syncHold, psPending, bufVars, downVars>>


\* ------------------------------------------------------------- collectives
WindowOf(tk) == (tk.offset \div bound) + 1
\* task->tensor is buffer "in"; task->output is the same buffer when it aliases
OutBuf == IF alias THEN "in" ELSE "out"
\* line 104 and line 204: the buffer a collective works on
CollectiveBuf(op) == IF op = "REDUCE" THEN "in" ELSE OutBuf

\* the cuda event of a group entry has completed
EventDone(entry) == ncclDone >= entry.event

\* The communicator executes the next collective of the stream once every
\* rank has launched it: ncclReduce sums the windows into the root's buffer,
\* ncclBroadcast copies the root's window to every rank.
NcclExec ==
    LET j == ncclDone + 1
        call(r) == Stream(r)[j]
        win(r) == WindowOf(task[r][call(r).t])
        buf == CollectiveBuf(call(Root).op)
    IN  /\ localSize > 1
        /\ \A r \in Ranks : aborted[r] = "" /\ ~shutdownDone[r] /\ Len(Stream(r)) >= j
        /\ \A r \in Ranks : call(r).key = call(Root).key /\ call(r).op = call(Root).op
        /\ ncclDone' = j
        /\ IF call(Root).op = "REDUCE"
           THEN mem' = [mem EXCEPT ![Root][buf][win(Root)] =
                            SumOver(Ranks, [r \in Ranks |-> mem[r][buf][win(r)]])]
           ELSE mem' = [r \in Ranks |->
                            [mem[r] EXCEPT ![buf][win(r)] = mem[Root][buf][win(Root)]]]
        /\ UNCHANGED <<cfgVars, enqVars, itemVars, live, coordHold, chan, rootOpen, nrTasks,
                       nrCalls, ncclLog, ncclGroup, syncHold, psPending, cpubuff,
                       store, downVars>>

\* ---------------------------------------------------------- RunSyncNcclOnce
\* line 245: DequeueNcclGroup returned an entry
SyncDequeue(r) ==
    /\ Running(r, "SyncNcclLoop")
    /\ syncHold[r] = <<>>
    /\ ncclGroup[r] # <<>>
    /\ syncHold' = [syncHold EXCEPT ![r] = [entry |-> Head(ncclGroup[r]), i |-> 1]]
    /\ ncclGroup' = [ncclGroup EXCEPT ![r] = Tail(@)]
    /\ UNCHANGED <<cfgVars, enqVars, itemVars, live, coordHold, chan, rootOpen, nrTasks,
                   nrCalls, ncclLog, ncclDone, psPending, bufVars, downVars>>

\* lines 247-254: after cudaEventSynchronize, one pass of the loop over the
\* tasks of the entry; the iteration ends after the last pass
SyncStep(r) ==
    /\ Running(r, "SyncNcclLoop")
    /\ syncHold[r] # <<>>
    /\ LET entry == syncHold[r].entry
           i == syncHold[r].i
           st1 == FinishOrProceed(RankState(r), entry.tasks[i])
           st2 == IF Len(entry.queues) >= i THEN reportFinish(st1, entry.queues[i])
                  ELSE st1
       IN  /\ EventDone(entry)
           /\ IF Len(entry.tasks) = 0
              THEN UNCHANGED itemVars
              ELSE Commit(r, st2)
           /\ IF i >= Len(entry.tasks)
              THEN /\ syncHold' = [syncHold EXCEPT ![r] = <<>>]
                   /\ AfterIteration(r, "SyncNcclLoop")
              ELSE /\ syncHold' = [syncHold EXCEPT ![r].i = i + 1]
                   /\ UNCHANGED live
    /\ UNCHANGED <<cfgVars, enqVars, coordHold, chan, rootOpen, nrTasks, nrCalls, ncclLog,
                   ncclDone, ncclGroup, psPending, bufVars, downVars>>

\* ----------------------------------------------- RunCopyDevice2HostLoopOnce
RunCopyDevice2HostLoopOnce ==
    /\ Running(Root, "CopyDevice2HostLoop")
    /\ queue[Root]["COPYD2H"] # <<>>
    /\ LET t == Head(queue[Root]["COPYD2H"])
           tk == task[Root][t]
           st0 == [RankState(Root) EXCEPT !.queue["COPYD2H"] = Tail(@)]
       IN  /\ cpubuff' = IF tk.device # CPU_DEVICE_ID
                         THEN [cpubuff EXCEPT ![WindowOf(tk)] = mem[Root]["in"][WindowOf(tk)]]
                         ELSE cpubuff
           /\ Commit(Root, reportFinish(FinishOrProceed(st0, t), "COPYD2H"))
    /\ AfterIteration(Root, "CopyDevice2HostLoop")
    /\ UNCHANGED <<cfgVars, enqVars, coordHold, chan, rootOpen, nrTasks, nrCalls, ncclLog,
                   ncclDone, ncclGroup, syncHold, psPending, mem, store, downVars>>

\* ----------------------------------------------- RunCopyHost2DeviceLoopOnce
RunCopyHost2DeviceLoopOnce ==
    /\ Running(Root, "CopyHost2DeviceLoop")
    /\ queue[Root]["COPYH2D"] # <<>>
    /\ LET t == Head(queue[Root]["COPYH2D"])
           tk == task[Root][t]
           st0 == [RankState(Root) EXCEPT !.queue["COPYH2D"] = Tail(@)]
       IN  /\ mem' = IF tk.device # CPU_DEVICE_ID
                     THEN [mem EXCEPT ![Root][OutBuf][WindowOf(tk)] = cpubuff[WindowOf(tk)]]
                     ELSE mem
           /\ Commit(Root, reportFinish(FinishOrProceed(st0, t), "COPYH2D"))
    /\ AfterIteration(Root, "CopyHost2DeviceLoop")
    /\ UNCHANGED <<cfgVars, enqVars, coordHold, chan, rootOpen, nrTasks, nrCalls, ncclLog,
                   ncclDone, ncclGroup, syncHold, psPending, cpubuff, store, downVars>>

\* ------------------------------------------- RunPushLoopOnce, RunPullLoopOnce
PsLoop(kind) == IF kind = "PUSH" THEN "PushLoop" ELSE "PullLoop"

\* lines 306-312: the buffer ZPush sends from
PushFromHost_Mut(dev) == TRUE
PushFromHost(dev) == dev # CPU_DEVICE_ID
\* lines 347-353: the buffer ZPull receives into
PullToHost(dev) == dev # CPU_DEVICE_ID

\* getTask and the asynchronous ZPush / ZPull call
PsIssue(kind) ==
    /\ Running(Root, PsLoop(kind))
    /\ queue[Root][kind] # <<>>
    /\ queue' = [queue EXCEPT ![Root][kind] = Tail(@)]
    /\ psPending' = psPending \cup {[kind |-> kind, t |-> Head(queue[Root][kind])]}
    /\ AfterIteration(Root, PsLoop(kind))
    /\ UNCHANGED <<cfgVars, enqVars, task, counter, cb, visited, finish, aborted,
                   coordHold, chan, rootOpen, nrTasks, nrCalls, ncclLog, ncclDone, ncclGroup,
                   syncHold, bufVars, downVars>>

\* the server has taken the pushed window; the continuation of lines 324-327
PushDone(p) ==
    /\ p \in psPending /\ p.kind = "PUSH" /\ aborted[Root] = ""
    /\ LET tk == task[Root][p.t]
           w == WindowOf(tk)
           data == IF PushFromHost(tk.device) THEN cpubuff[w] ELSE mem[Root]["in"][w]
       IN  /\ store' = [store EXCEPT ![tk.key] = data]
           /\ Commit(Root, reportFinish(FinishOrProceed(RankState(Root), p.t), "PUSH"))
    /\ psPending' = psPending \ {p}
    /\ UNCHANGED <<cfgVars, enqVars, live, coordHold, chan, rootOpen, nrTasks, nrCalls,
                   ncclLog, ncclDone, ncclGroup, syncHold, mem, cpubuff, downVars>>

\* the server's value has arrived; the continuation of lines 366-370
PullDone(p) ==
    /\ p \in psPending /\ p.kind = "PULL" /\ aborted[Root] = ""
    /\ LET tk == task[Root][p.t]
           w == WindowOf(tk)
       IN  /\ IF PullToHost(tk.device)
              THEN /\ cpubuff' = [cpubuff EXCEPT ![w] = store[tk.key]]
                   /\ UNCHANGED mem
              ELSE /\ mem' = [mem EXCEPT ![Root][OutBuf][w] = store[tk.key]]
                   /\ UNCHANGED cpubuff
           /\ Commit(Root, reportFinish(FinishOrProceed(RankState(Root), p.t), "PULL"))
    /\ psPending' = psPending \ {p}
    /\ UNCHANGED <<cfgVars, enqVars, live, coordHold, chan, rootOpen, nrTasks, nrCalls,
                   ncclLog, ncclDone, ncclGroup, syncHold, store, downVars>>

\* ----------------------------------------------------------------- shutdown
\* getTask / DequeueNcclGroup returns nothing at the start of an iteration
IdleIteration(r, loop) ==
    CASE loop = "CoordinateReduceLoop" ->
            coordHold[r]["COORDINATE_REDUCE"] = 0 /\ queue[r]["COORDINATE_REDUCE"] = <<>>
      [] loop = "CoordinateBroadcastLoop" ->
            coordHold[r]["COORDINATE_BROADCAST"] = 0
            /\ queue[r]["COORDINATE_BROADCAST"] = <<>>
      [] loop = "RootNcclLoop" -> queue[r]["REDUCE"] = <<>> /\ queue[r]["BROADCAST"] = <<>>
      [] loop = "SyncNcclLoop" -> syncHold[r] = <<>> /\ ncclGroup[r] = <<>>
      [] loop = "CopyDevice2HostLoop" -> queue[r]["COPYD2H"] = <<>>
      [] loop = "PushLoop" -> queue[r]["PUSH"] = <<>>
      [] loop = "PullLoop" -> queue[r]["PULL"] = <<>>
      [] loop = "CopyHost2DeviceLoop" -> queue[r]["COPYH2D"] = <<>>
      [] loop = "NonRootNcclLoop" -> FALSE    \* blocked in recvSignal

\* an iteration that found nothing, then the loop condition sees the flag
\* and the loop function returns (lines 410-449)
LoopIdleExit(r, loop) ==
    /\ Running(r, loop)
    /\ IdleIteration(r, loop)
    /\ ~KeepLooping(r)
    /\ live' = [live EXCEPT ![r] = @ \ {loop}]
    /\ UNCHANGED <<cfgVars, enqVars, itemVars, coordHold, chan, rootOpen, nrTasks, nrCalls,
                   ncclLog, ncclDone, ncclGroup, syncHold, psPending, bufVars, downVars>>

\* byteps_shutdown: BytePSGlobal::Shutdown sets the flag ...
ShutdownRequest(r) ==
    /\ ~shutdownFlag[r] /\ aborted[r] = "" /\ enq[r] # "adding"
    /\ shutdownFlag' = [shutdownFlag EXCEPT ![r] = TRUE]
    /\ UNCHANGED <<cfgVars, enqVars, itemVars, loopVars, bufVars, shutdownDone>>

\* ... joins the loop threads ...
Joined_Mut(r) == TRUE
Joined(r) == live[r] = {}

\* ... tears the handles down (the parameter-server client with its pending
\* continuations among them) and returns
ShutdownReturn(r) ==
    /\ shutdownFlag[r] /\ ~shutdownDone[r] /\ aborted[r] = ""
    /\ Joined(r)
    /\ shutdownDone' = [shutdownDone EXCEPT ![r] = TRUE]
    /\ psPending' = IF IsRoot(r) THEN {} ELSE psPending
    /\ UNCHANGED <<cfgVars, enqVars, itemVars, live, coordHold, chan, rootOpen, nrTasks,
                   nrCalls, ncclLog, ncclDone, ncclGroup, syncHold, bufVars,
                   shutdownFlag>>


\* ------------------------------------------------------------ initial states
R  == "REDUCE"
B  == "BROADCAST"
CR == "COORDINATE_REDUCE"
CB == "COORDINATE_BROADCAST"

\* queue lists of the root: the two derived ones and shorter ones
RootQueueLists ==
    {<<R, B>>, <<R, "COPYD2H", "PUSH", "PULL", "COPYH2D", B>>, <<R>>, <<B>>, <<"PUSH">>}
\* queue lists of a non-root: the derived one and its two halves
NonRootQueueLists == {<<CR, R, CB, B>>, <<CR, R>>, <<CB, B>>}

\* the key_list InitTensor accepts for a buffer of that length (line 629)
KeysFor(len, bnd) == [i \in 1 .. ((len + bnd - 1) \div bnd) |-> Key(0, i)]

\* input of rank r in window w: a different bit for every rank and window
InputVal(r, w) == Pow2((w - 1) * MaxLocalSize + r)

\* the state after byteps_init on every rank, nothing enqueued yet
InitRun(nWin) ==
    /\ enq = [r \in Ranks |-> "idle"]
    /\ parts = [r \in Ranks |-> <<>>]
    /\ enqI = [r \in Ranks |-> 0]
    /\ accum = [r \in Ranks |-> 0]
    /\ task = [r \in Ranks |-> <<>>]
    /\ queue = [r \in Ranks |-> [q \in QueueTypes |-> <<>>]]
    /\ counter = [r \in Ranks |-> <<>>]
    /\ cb = [r \in Ranks |-> <<>>]
    /\ visited = [r \in Ranks |-> <<>>]
    /\ finish = [r \in Ranks |-> [q \in QueueTypes |-> 0]]
    /\ aborted = [r \in Ranks |-> ""]
    /\ live = [r \in Ranks |-> StartedLoops(r)]
    /\ coordHold = [r \in Ranks |-> [op \in {CR, CB} |-> 0]]
    /\ chan = [r \in Ranks |-> <<>>]
    /\ rootOpen = <<>>
    /\ nrTasks = [r \in Ranks |-> <<>>]
    /\ nrCalls = [r \in Ranks |-> <<>>]
    /\ ncclLog = [r \in Ranks |-> <<>>]
    /\ ncclDone = 0
    /\ ncclGroup = [r \in Ranks |-> <<>>]
    /\ syncHold = [r \in Ranks |-> <<>>]
    /\ psPending = {}
    /\ mem = [r \in Ranks |-> [b \in {"in", "out"} |->
                 [w \in 1 .. nWin |-> IF b = "in" THEN InputVal(r, w) ELSE 0]]]
    /\ cpubuff = [w \in 1 .. nWin |-> 0]
    /\ store = [k \in Range(keyList) |-> 0]
    /\ shutdownFlag = [r \in Ranks |-> FALSE]
    /\ shutdownDone = [r \in Ranks |-> FALSE]

Init ==
    /\ localSize \in 1 .. MaxLocalSize
    /\ distributed \in BOOLEAN
    /\ groupSize \in 1 .. MaxGroupSize
    /\ bound = PipelineBound
    /\ word = 0 /\ intOverflow = "wrap"
    /\ tsize \in {bound * (n - 1) + 1 : n \in 1 .. MaxParts}
    /\ osize = tsize
    /\ keyList = KeysFor(tsize, bound)
    /\ device \in {GPU_DEVICE_ID, CPU_DEVICE_ID}
    /\ alias \in BOOLEAN
    /\ qlist \in {f \in [Ranks -> RootQueueLists \cup NonRootQueueLists] :
                    \A r \in Ranks : IF IsRoot(r) THEN f[r] \in RootQueueLists
                                     ELSE f[r] \in NonRootQueueLists}
    /\ InitRun(Len(keyList))

\* the pipeline at work: the user threads, the stage loops, the communicator
\* and the parameter-server continuations
NextRun ==
    \/ \E r \in Ranks : EnqueueBegin(r)
    \/ \E r \in Ranks : EnqueueAdd(r)
    \/ \E r \in Ranks, op \in {CR, CB} : CoordinateProceed(r, op)
    \/ \E r \in Ranks, op \in {CR, CB} : CoordinateSignal(r, op)
    \/ RunRootNcclLoopOnce
    \/ \E r \in Ranks : NonRootRecv(r)
    \/ NcclExec
    \/ \E r \in Ranks : SyncDequeue(r)
    \/ \E r \in Ranks : SyncStep(r)
    \/ RunCopyDevice2HostLoopOnce
    \/ RunCopyHost2DeviceLoopOnce
    \/ \E kind \in {"PUSH", "PULL"} : PsIssue(kind)
    \/ \E p \in psPending : PushDone(p)
    \/ \E p \in psPending : PullDone(p)

Next == NextRun

Spec == Init /\ [][Next]_vars

\* EnqueueTensor alone, on one rank, over a range of sizes, bounds and key lists
InitEnqueue ==
    /\ localSize = 1
    /\ distributed = FALSE
    /\ groupSize = 1
    /\ bound \in 1 .. MaxBound
    /\ word = 0 /\ intOverflow = "wrap"
    /\ tsize \in 0 .. MaxTensorSize
    /\ osize \in {tsize, tsize + 1}
    /\ keyList \in {[i \in 1 .. n |-> Key(0, i)] : n \in 0 .. MaxKeys}
    /\ device = GPU_DEVICE_ID
    /\ alias = TRUE
    /\ qlist \in [Ranks -> {<<>>, <<R, B>>}]
    /\ InitRun(MaxTensorSize)

NextEnqueue ==
    \/ EnqueueBegin(Root)
    \/ EnqueueAdd(Root)

SpecEnqueue == InitEnqueue /\ [][NextEnqueue]_vars


\* The pipeline with byteps_shutdown called at any moment on any rank, for
\* the role's derived queue lists and a list that ends in a push.
DerivedRootList == IF distributed
                   THEN <<R, "COPYD2H", "PUSH", "PULL", "COPYH2D", B>>
                   ELSE <<R, B>>

InitShutdown ==
    /\ localSize \in 1 .. MaxLocalSize
    /\ distributed \in BOOLEAN
    /\ groupSize = 1
    /\ bound = PipelineBound
    /\ word = 0 /\ intOverflow = "wrap"
    /\ tsize \in {bound * (n - 1) + 1 : n \in 1 .. MaxParts}
    /\ osize = tsize
    /\ keyList = KeysFor(tsize, bound)
    /\ device = GPU_DEVICE_ID
    /\ alias = TRUE
    /\ qlist \in {f \in [Ranks -> RootQueueLists \cup NonRootQueueLists] :
                    \A r \in Ranks : IF IsRoot(r)
                                     THEN f[r] \in {DerivedRootList, <<"PUSH">>}
                                     ELSE f[r] \in {<<CR, R, CB, B>>, <<CR, R>>}}
    /\ InitRun(Len(keyList))

NextShutdown ==
    \/ NextRun
    \/ \E r \in Ranks, loop \in LoopNames : LoopIdleExit(r, loop)
    \/ \E r \in Ranks : ShutdownRequest(r)
    \/ \E r \in Ranks : ShutdownReturn(r)

SpecShutdown == InitShutdown /\ [][NextShutdown]_vars


\* The root's NCCL iteration taken in its two steps, on a single node: the
\* signals of a group can reach the non-roots before the root closes it.
InitRootGroup ==
    /\ localSize \in 1 .. MaxLocalSize
    /\ distributed = FALSE
    /\ groupSize \in 1 .. MaxGroupSize
    /\ bound = PipelineBound
    /\ word = 0 /\ intOverflow = "wrap"
    /\ tsize \in {bound * (n - 1) + 1 : n \in 1 .. MaxParts}
    /\ osize = tsize
    /\ keyList = KeysFor(tsize, bound)
    /\ device \in {GPU_DEVICE_ID, CPU_DEVICE_ID}
    /\ alias = TRUE
    /\ qlist \in {f \in [Ranks -> RootQueueLists \cup NonRootQueueLists] :
                    \A r \in Ranks : IF IsRoot(r) THEN f[r] \in {<<R, B>>, <<R>>}
                                     ELSE f[r] \in NonRootQueueLists}
    /\ InitRun(Len(keyList))

NextRootGroup ==
    \/ \E r \in Ranks : EnqueueBegin(r)
    \/ \E r \in Ranks : EnqueueAdd(r)
    \/ \E r \in Ranks, op \in {CR, CB} : CoordinateProceed(r, op)
    \/ \E r \in Ranks, op \in {CR, CB} : CoordinateSignal(r, op)
    \/ RootNcclBroadcast
    \/ RootNcclGroupEnd
    \/ \E r \in Ranks : NonRootRecv(r)
    \/ NcclExec
    \/ \E r \in Ranks : SyncDequeue(r)
    \/ \E r \in Ranks : SyncStep(r)

SpecRootGroup == InitRootGroup /\ [][NextRootGroup]_vars


\* The NCCL path on a single node for a tensor of two partitions whose keys
\* are small, or large, or differ in the high word only.
KeyLists ==
    {<<Key(0, 1), Key(0, 2)>>, <<Key(1, 1), Key(1, 2)>>, <<Key(0, 1), Key(1, 1)>>}

InitKeys ==
    /\ localSize \in 1 .. MaxLocalSize
    /\ distributed = FALSE
    /\ groupSize \in 1 .. MaxGroupSize
    /\ bound = PipelineBound
    /\ word = 0 /\ intOverflow = "wrap"
    /\ tsize = bound + 1
    /\ osize = tsize
    /\ keyList \in KeyLists
    /\ device = GPU_DEVICE_ID
    /\ alias = TRUE
    /\ qlist \in {f \in [Ranks -> RootQueueLists \cup NonRootQueueLists] :
                    \A r \in Ranks : IF IsRoot(r) THEN f[r] \in {<<R, B>>, <<R>>}
                                     ELSE f[r] \in NonRootQueueLists}
    /\ InitRun(Len(keyList))

NextKeys ==
    \/ \E r \in Ranks : EnqueueBegin(r)
    \/ \E r \in Ranks : EnqueueAdd(r)
    \/ \E r \in Ranks, op \in {CR, CB} : CoordinateProceed(r, op)
    \/ \E r \in Ranks, op \in {CR, CB} : CoordinateSignal(r, op)
    \/ RunRootNcclLoopOnce
    \/ \E r \in Ranks : NonRootRecv(r)
    \/ NcclExec
    \/ \E r \in Ranks : SyncDequeue(r)
    \/ \E r \in Ranks : SyncStep(r)

SpecKeys == InitKeys /\ [][NextKeys]_vars


\* EnqueueTensor on one rank for tensors of up to and beyond 2^32 bytes, the
\* sizes and the bound counted in units of 2^28 bytes, with the key_list
\* InitTensor makes for the size.
InitWide ==
    /\ localSize = 1
    /\ distributed = FALSE
    /\ groupSize = 1
    /\ bound \in 1 .. MaxBound
    /\ word = WordUnits /\ intOverflow \in {"wrap", "wide"}
    /\ tsize \in 0 .. MaxWideSize
    /\ osize = tsize
    /\ keyList = KeysFor(tsize, bound)
    /\ device = GPU_DEVICE_ID
    /\ alias = TRUE
    /\ qlist = [r \in Ranks |-> <<R, B>>]
    /\ InitRun(1)

SpecWide == InitWide /\ [][NextEnqueue]_vars


\* One node of a distributed job whose tensor of one partition is enqueued
\* again while the items of the earlier call are in the pipeline.
InitReenqueue ==
    /\ localSize = 1
    /\ distributed = TRUE
    /\ groupSize = 1
    /\ bound = PipelineBound
    /\ word = 0 /\ intOverflow = "wrap"
    /\ tsize = bound
    /\ osize = tsize
    /\ keyList = KeysFor(tsize, bound)
    /\ device = GPU_DEVICE_ID
    /\ alias = TRUE
    /\ qlist = [r \in Ranks |-> DerivedRootList]
    /\ InitRun(Len(keyList))

NextReenqueue ==
    \/ \E r \in Ranks : EnqueueBegin(r)
    \/ \E r \in Ranks : EnqueueTensorAgain(r)
    \/ \E r \in Ranks : EnqueueAdd(r)
    \/ RunRootNcclLoopOnce
    \/ \E r \in Ranks : SyncDequeue(r)
    \/ \E r \in Ranks : SyncStep(r)
    \/ RunCopyDevice2HostLoopOnce
    \/ RunCopyHost2DeviceLoopOnce
    \/ \E kind \in {"PUSH", "PULL"} : PsIssue(kind)
    \/ \E p \in psPending : PushDone(p)
    \/ \E p \in psPending : PullDone(p)

SpecReenqueue == InitReenqueue /\ [][NextReenqueue]_vars


\* ==================================================================== claims
ItemsOf(r, e) == {t \in 1 .. Len(task[r]) : task[r][t].enq = e}
Finalized(r, e) == {t \in ItemsOf(r, e) : task[r][t].queue_list = <<>>}
AllCallbacksFired == \A r \in Ranks : cb[r] = << <<"OK">> >>
DerivedLists ==
    /\ qlist[Root] = DerivedRootList
    /\ \A r \in NonRoots : qlist[r] = <<CR, R, CB, B>>
SumOfInputs(w) == SumOver(Ranks, [r \in Ranks |-> InputVal(r, w)])

\* C1: for an enqueue with a non-empty queue_list and n = total_partnum
\* partitions, the callback has been invoked exactly once, with success, in
\* every state where all n partitions have been advanced past the last entry
\* of their queue_list, and not at all in every other state.
C1_CallbackExactlyOnce ==
    \A r \in Ranks : \A e \in 1 .. Len(cb[r]) :
        (qlist[r] # <<>> /\ aborted[r] = "") =>
            cb[r][e] = IF Cardinality(Finalized(r, e)) = Len(keyList)
                       THEN <<"OK">> ELSE <<>>

\* two partitions, both finalized, the callback called
C1_Witness ==
    \E r \in Ranks :
        /\ Len(keyList) >= 2 /\ Len(cb[r]) = 1 /\ cb[r][1] = <<"OK">>
        /\ Cardinality(Finalized(r, 1)) = Len(keyList)

\* C2: the queues an item has been placed on are, in order, a prefix of its
\* initial queue_list; what remains of its queue_list is the rest, starting at
\* the queue it was placed on last; an item on a queue is on the queue its
\* queue_list begins with; a finalized item has visited the whole list.
C2_StagesInOrder ==
    \A r \in Ranks : \A t \in 1 .. Len(task[r]) :
        LET v == visited[r][t]
            ql == task[r][t].queue_list
            init == qlist[r]
        IN  /\ Len(v) >= 1 /\ Len(v) <= Len(init)
            /\ v = SubSeq(init, 1, Len(v))
            /\ IF ql = <<>> THEN v = init
               ELSE ql = SubSeq(init, Len(v), Len(init))
            /\ \A q \in QueueTypes :
                   t \in Range(queue[r][q]) => (ql # <<>> /\ q = ql[1])

\* an item has gone through all six stages of the distributed root list
C2_Witness ==
    \E t \in 1 .. Len(task[Root]) :
        /\ Len(qlist[Root]) = 6
        /\ visited[Root][t] = qlist[Root]
        /\ task[Root][t].queue_list = <<>>

\* C3: with the derived queue lists and no shutdown, no rank aborts, and a
\* pipeline in which nothing more can happen has called the callback on
\* every rank.
C3_NoAbortAndCompletes ==
    DerivedLists =>
        /\ \A r \in Ranks : aborted[r] = ""
        /\ (~ENABLED Next) => AllCallbacksFired

\* C4: when DO_REDUCE{k} or DO_BROADCAST{k} is the next signal a non-root's
\* NonRootNccl loop receives, an item with key k is on that non-root's
\* REDUCE (resp. BROADCAST) queue.
C4_KeyedTaskPresent ==
    \A r \in NonRoots :
        (Running(r, "NonRootNcclLoop") /\ chan[r] # <<>>
           /\ Head(chan[r]).signal \in {"DO_REDUCE", "DO_BROADCAST"}) =>
            KeyedIndex(r, queue[r][NonRootOp(Head(chan[r]).signal)],
                       Head(chan[r]).key) # 0

\* C5: every NCCL group a non-root has closed holds the same (key, op) calls,
\* in the same order, as the root's group of the same number, and the calls of
\* the group it has open are the first calls of the root's next group.
CallsOf(group) == [i \in 1 .. Len(group) |-> [key |-> group[i].key, op |-> group[i].op]]
C5_SameCallsPerGroup ==
    \A r \in NonRoots :
        /\ Len(ncclLog[r]) <= Len(ncclLog[Root])
        /\ \A g \in 1 .. Len(ncclLog[r]) :
               CallsOf(ncclLog[r][g]) = CallsOf(ncclLog[Root][g])
        /\ nrCalls[r] # <<>> =>
               /\ Len(ncclLog[Root]) > Len(ncclLog[r])
               /\ LET next == ncclLog[Root][Len(ncclLog[r]) + 1]
                  IN  /\ Len(nrCalls[r]) <= Len(next)
                      /\ CallsOf(nrCalls[r]) = CallsOf(SubSeq(next, 1, Len(nrCalls[r])))

\* a non-root has closed two consecutive groups with a collective in each
C5_Witness ==
    \E r \in NonRoots :
        /\ Len(ncclLog[r]) >= 2
        /\ ncclLog[r][1] # <<>> /\ ncclLog[r][2] # <<>>


\* what the stage loops and the continuations of rank r write
PipelineState(r) ==
    <<task[r], queue[r], counter[r], cb[r], finish[r], coordHold[r], nrTasks[r],
      nrCalls[r], ncclLog[r], ncclGroup[r], syncHold[r], live[r]>>

C7_LoopsExitOnShutdown ==
    \A r \in Ranks :
        (shutdownFlag[r] /\ (\A x \in Ranks : aborted[x] = "")
           /\ ~ENABLED NextShutdown) => live[r] = {}

\* C8: in a single-node run with the derived queue lists and local size >= 2,
\* a pipeline in which nothing more can happen has called the callback on
\* every rank, and every window of every rank's output holds the sum of the
\* ranks' inputs.
C8_OutputIsSum ==
    (~distributed /\ localSize >= 2 /\ DerivedLists /\ ~ENABLED Next) =>
        /\ AllCallbacksFired
        /\ \A r \in Ranks : \A w \in 1 .. Len(keyList) :
               mem[r][OutBuf][w] = SumOfInputs(w)

\* C9: in a distributed run with local size 1 and the derived root list, once
\* the callback has been called every window of the output holds the input of
\* that window, the server holds it under the partition's key, and the host
\* buffer holds it for an accelerator item and is untouched for a CPU item.
C9_OutputEqualsInput ==
    (distributed /\ localSize = 1 /\ qlist[Root] = DerivedRootList
       /\ cb[Root] = << <<"OK">> >>) =>
        \A w \in 1 .. Len(keyList) :
            /\ mem[Root][OutBuf][w] = InputVal(Root, w)
            /\ store[keyList[w]] = InputVal(Root, w)
            /\ cpubuff[w] = IF device # CPU_DEVICE_ID THEN InputVal(Root, w) ELSE 0

\* the callback of a two-partition accelerator tensor with a separate output
C9_Witness ==
    /\ distributed /\ localSize = 1 /\ qlist[Root] = DerivedRootList
    /\ cb[Root] = << <<"OK">> >>
    /\ device # CPU_DEVICE_ID /\ ~alias /\ Len(keyList) = 2

\* C10: the partitions of an enqueue that passed the key_list check are as
\* many as context.key_list and as ceil(S / B); their lengths are positive and
\* sum to S; each begins where the one before it ends, the first at 0; and
\* the item enqueued for partition i carries key_list[i] and that window.
RECURSIVE SumLen(_)
SumLen(ps) == IF ps = <<>> THEN 0 ELSE Head(ps).len + SumLen(Tail(ps))
CeilDiv(a, b) == (a + b - 1) \div b
C10_PartitionsCoverTensor ==
    \A r \in Ranks :
        (enq[r] # "idle" /\ aborted[r] = "") =>
            LET ps == parts[r]
            IN  /\ Len(ps) = Len(keyList)
                /\ Len(ps) = CeilDiv(tsize, bound)
                /\ SumLen(ps) = tsize
                /\ \A i \in 1 .. Len(ps) :
                       /\ ps[i].len > 0 /\ ps[i].len <= bound
                       /\ ps[i].offset = SumLen(SubSeq(ps, 1, i - 1))
                /\ \A t \in 1 .. Len(task[r]) :
                       /\ task[r][t].key = keyList[t]
                       /\ task[r][t].offset = ps[t].offset
                       /\ task[r][t].len = ps[t].len
                /\ (enq[r] = "done" /\ qlist[r] # <<>>) => Len(task[r]) = Len(ps)

\* four partitions enqueued, the last one shorter than the bound
C10_Witness ==
    /\ enq[Root] = "done" /\ Len(task[Root]) = 4
    /\ task[Root][4].len < bound /\ task[Root][4].len > 0


\* an enqueue on rank r has gone through PartitionTensor
Partitioned(r) == Len(counter[r]) >= 1
AllQueuesEmpty(r) == \A q \in QueueTypes : queue[r][q] = <<>>

\* C11: the partitions PartitionTensor makes of a tensor of S bytes under the
\* bound B are those of the reference partitioner: there are ceil(S / B) of
\* them, partition i (0-based) has offset i*B, length min(B, S - i*B) and the
\* name suffix i, and all of them carry the counter, the callback and the
\* total_partnum of the enqueue; a tensor of k*B bytes gives k partitions of
\* B bytes each; the items enqueued carry the same fields.
C11_MatchesReference ==
    \A r \in Ranks :
        Partitioned(r) =>
            LET ps == parts[r]
            IN  /\ Len(ps) = CeilDiv(tsize, bound)
                /\ \A i \in 1 .. Len(ps) :
                       /\ ps[i].offset = (i - 1) * bound
                       /\ ps[i].len = Min(bound, tsize - (i - 1) * bound)
                       /\ ps[i].name = i - 1
                       /\ ps[i].enq = Len(counter[r])
                       /\ ps[i].total_partnum = Len(keyList)
                /\ (tsize % bound = 0) =>
                       /\ Len(ps) = tsize \div bound
                       /\ \A i \in 1 .. Len(ps) : ps[i].len = bound
                /\ \A t \in 1 .. Len(task[r]) :
                       /\ task[r][t].name = ps[t].name
                       /\ task[r][t].enq = ps[t].enq
                       /\ task[r][t].total_partnum = ps[t].total_partnum

\* a tensor of 3*B + 1 bytes with B = 2 enqueued as four items of 2, 2, 2, 1
C11_Witness ==
    /\ bound = 2 /\ tsize = 3 * bound + 1 /\ enq[Root] = "done"
    /\ [i \in 1 .. Len(task[Root]) |-> task[Root][i].len] = <<2, 2, 2, 1>>
    /\ [i \in 1 .. Len(task[Root]) |-> task[Root][i].name] = <<0, 1, 2, 3>>

\* C12: a tensor of S <= B bytes, the empty tensor included, is partitioned
\* into exactly one partition, of offset 0 and length S.
C12_SmallTensorOnePartition ==
    \A r \in Ranks :
        (Partitioned(r) /\ tsize <= bound) =>
            /\ Len(parts[r]) = 1
            /\ parts[r][1].offset = 0
            /\ parts[r][1].len = tsize

\* C13: after EnqueueTensor with an empty queue_list, on a context whose
\* key_list has one key per partition and with tensors of equal size, the
\* callback has been called exactly once, with success, the call has
\* returned, no item exists, every queue is empty and the counter of the
\* enqueue is still 0.
C13_EmptyQueueListCallsBack ==
    \A r \in Ranks :
        (Partitioned(r) /\ qlist[r] = <<>> /\ aborted[r] = "") =>
            /\ enq[r] = "done"
            /\ cb[r] = << <<"OK">> >>
            /\ counter[r] = <<0>>
            /\ task[r] = <<>>
            /\ AllQueuesEmpty(r)
            /\ \A q \in QueueTypes : finish[r][q] = 0

\* an empty queue_list on a tensor of three partitions
C13_Witness ==
    /\ qlist[Root] = <<>> /\ Len(parts[Root]) = 3
    /\ cb[Root] = << <<"OK">> >> /\ enq[Root] = "done"

\* C14: EnqueueTensor with input and output of different sizes does not end
\* the process: once the call is over the callback has been called with a
\* failure status, and no item is on any queue.
C14_MismatchIsStatus ==
    \A r \in Ranks :
        (tsize # osize /\ ~ENABLED NextEnqueue) =>
            /\ aborted[r] = ""
            /\ Len(cb[r]) = 1 /\ Len(cb[r][1]) = 1 /\ cb[r][1][1] # "OK"
            /\ AllQueuesEmpty(r)

\* C15: EnqueueTensor with a non-empty queue_list on a tensor that gives no
\* partition, or on a context without keys, calls the callback with a failure
\* status, does not end the process and leaves every queue empty.
C15_ZeroPartitionsIsStatus ==
    \A r \in Ranks :
        (tsize = osize /\ qlist[r] # <<>> /\ ~ENABLED NextEnqueue
           /\ (parts[r] = <<>> \/ keyList = <<>>)) =>
            /\ aborted[r] = ""
            /\ Len(cb[r]) = 1 /\ Len(cb[r][1]) = 1 /\ cb[r][1][1] # "OK"
            /\ AllQueuesEmpty(r)


\* the group entries of rank r that SyncNccl has not finished: the one it
\* holds and the ones handed to it
PendingEntries(r) ==
    (IF syncHold[r] = <<>> THEN <<>> ELSE <<syncHold[r].entry>>) \o ncclGroup[r]

\* C16: a group entry the root hands to SyncNccl holds at most
\* nccl_group_size items, those from the REDUCE queue and those from the
\* BROADCAST queue counted together.
C16_GroupWithinGroupSize ==
    \A g \in 1 .. Len(PendingEntries(Root)) :
        Len(PendingEntries(Root)[g].tasks) <= groupSize

\* item t of rank r was placed on queue q and has been advanced past it
Passed(r, t, q) ==
    /\ q \in Range(visited[r][t])
    /\ task[r][t].queue_list = <<>> \/ task[r][t].queue_list[1] # q

\* C17: on every rank that has not aborted, the number of reportFinish calls
\* on the REDUCE queue and on the BROADCAST queue is the number of items
\* SyncNccl has advanced past that queue: one call for each item advanced.
C17_ReportFinishPerItem ==
    \A r \in Ranks : \A q \in {R, B} :
        aborted[r] = "" =>
            finish[r][q] = Cardinality({t \in 1 .. Len(task[r]) : Passed(r, t, q)})

\* C18: with the non-root queue list [COORDINATE_REDUCE, REDUCE,
\* COORDINATE_BROADCAST, BROADCAST], the item a non-root finds for the
\* DO_REDUCE{k} or DO_BROADCAST{k} it receives next has exactly one entry
\* left in its queue_list.
C18_OneStageLeftAtNccl ==
    \A r \in NonRoots :
        (qlist[r] = <<CR, R, CB, B>> /\ Running(r, "NonRootNcclLoop")
           /\ chan[r] # <<>>
           /\ Head(chan[r]).signal \in {"DO_REDUCE", "DO_BROADCAST"}) =>
            LET q == queue[r][NonRootOp(Head(chan[r]).signal)]
                k == KeyedIndex(r, q, Head(chan[r]).key)
            IN  k # 0 => Len(task[r][q[k]].queue_list) = 1


\* the signals the root broadcasts for a sequence of groups: DO_REDUCE or
\* DO_BROADCAST for every call of a group, then the group's DO_GROUP
RECURSIVE SignalsOf(_)
SignalsOf(groups) ==
    IF groups = <<>> THEN <<>>
    ELSE [i \in 1 .. Len(Head(groups)) |->
             [signal |-> DoSignal(Head(groups)[i].op), key |-> Head(groups)[i].key]]
         \o <<[signal |-> "DO_GROUP", key |-> 0]>>
         \o SignalsOf(Tail(groups))
NamedBy(calls) ==
    [i \in 1 .. Len(calls) |-> [signal |-> DoSignal(calls[i].op), key |-> calls[i].key]]
\* the signals non-root r has received: those sent but no longer in flight
Received(r) ==
    SubSeq(SignalsOf(ncclLog[Root]), 1, Len(SignalsOf(ncclLog[Root])) - Len(chan[r]))
GroupSignals(sigs) == Cardinality({i \in 1 .. Len(sigs) : sigs[i].signal = "DO_GROUP"})

\* C19: a non-root has handed SyncNccl as many group entries as it has
\* received DO_GROUP signals; its closed groups, each followed by DO_GROUP,
\* and (unless it aborted) its open group name exactly the signals it has
\* received, in order; and the items of every entry not yet finished and of
\* the open group are the items found for those signals.
C19_GroupClosedOnlyOnDoGroup ==
    \A r \in NonRoots :
        LET n == Len(PendingEntries(r))
            closed == Len(ncclLog[r])
        IN  /\ closed = GroupSignals(Received(r))
            /\ SignalsOf(ncclLog[r]) = SubSeq(Received(r), 1, Len(SignalsOf(ncclLog[r])))
            /\ aborted[r] = "" =>
                   SignalsOf(ncclLog[r]) \o NamedBy(nrCalls[r]) = Received(r)
            /\ n <= closed
            /\ \A j \in 1 .. n :
                   LET calls == ncclLog[r][closed - n + j]
                   IN  PendingEntries(r)[j].tasks = [i \in 1 .. Len(calls) |-> calls[i].t]
            /\ nrTasks[r] = [i \in 1 .. Len(nrCalls[r]) |-> nrCalls[r][i].t]
            /\ \A i \in 1 .. Len(nrCalls[r]) :
                   task[r][nrCalls[r][i].t].key = FromInt(nrCalls[r][i].key)

\* a non-root has closed a group of two items on the root's DO_GROUP
C19_Witness ==
    \E r \in NonRoots :
        /\ aborted[r] = "" /\ Len(ncclLog[r]) >= 1 /\ Len(ncclLog[r][1]) = 2
        /\ Len(PendingEntries(r)) = 1 /\ Len(PendingEntries(r)[1].tasks) = 2

\* C20: with local size 1 the groups of the root hold no collective call and
\* no DO_REDUCE or DO_BROADCAST (the root issues the signal and the call of
\* an item together), while
\* every item taken off the REDUCE or BROADCAST queue is in a group entry
\* until SyncNccl advances it, and when nothing more can happen no item
\* is left waiting at REDUCE or BROADCAST.
C20_SingleRankSkipsCollectives ==
    localSize = 1 =>
        /\ \A g \in 1 .. Len(ncclLog[Root]) : ncclLog[Root][g] = <<>>
        /\ \A t \in 1 .. Len(task[Root]) :
               LET ql == task[Root][t].queue_list
               IN  (ql # <<>> /\ ql[1] \in {R, B}) =>
                       /\ \/ t \in Range(queue[Root][ql[1]])
                          \/ \E g \in 1 .. Len(PendingEntries(Root)) :
                                 t \in Range(PendingEntries(Root)[g].tasks)
                       /\ aborted[Root] = "" => ENABLED Next

\* one rank: both partitions went through REDUCE and BROADCAST groups and
\* the callback was called
C20_Witness ==
    /\ localSize = 1 /\ qlist[Root] = <<R, B>> /\ Len(keyList) = 2
    /\ device # CPU_DEVICE_ID
    /\ Len(ncclLog[Root]) >= 2 /\ cb[Root] = << <<"OK">> >>
    /\ finish[Root][R] = 2 /\ finish[Root][B] = 2


\* the number of times x occurs in the sequence s
Occurrences(s, x) == Cardinality({i \in 1 .. Len(s) : s[i] = x})
\* the tasks of the pending group entries of rank r that SyncNccl has not
\* advanced yet
RECURSIVE UnsyncedTasks(_, _)
UnsyncedTasks(entries, first) ==
    IF entries = <<>> THEN <<>>
    ELSE SubSeq(Head(entries).tasks, first, Len(Head(entries).tasks))
         \o UnsyncedTasks(Tail(entries), 1)
HeldBySync(r) ==
    UnsyncedTasks(PendingEntries(r), IF syncHold[r] = <<>> THEN 1 ELSE syncHold[r].i)
\* the number of places that hold item t of rank r
Holders(r, t) ==
    SumOver(QueueTypes, [q \in QueueTypes |-> Occurrences(queue[r][q], t)])
    + Occurrences(nrTasks[r], t)
    + Occurrences(HeldBySync(r), t)
    + (IF IsRoot(r) THEN Cardinality({p \in psPending : p.t = t}) ELSE 0)

\* C24: on a rank that has not aborted, every item that still has stages to
\* go is held in exactly one place (a stage queue, the open group of the
\* non-root NCCL loop, a group entry SyncNccl has not advanced it from, or a
\* pending Push/Pull request), a finalized item is held nowhere, and an item
\* on a queue is on the queue its queue_list begins with.
C24_HeldInOnePlace ==
    \A r \in Ranks :
        aborted[r] = "" =>
            \A t \in 1 .. Len(task[r]) :
                LET ql == task[r][t].queue_list
                IN  /\ Holders(r, t) = IF ql = <<>> THEN 0 ELSE 1
                    /\ \A q \in QueueTypes :
                           Occurrences(queue[r][q], t) > 0 => (ql # <<>> /\ q = ql[1])

\* on the root one item waits at the server for its pull while another is
\* in a group entry SyncNccl has not advanced
C24_Witness ==
    /\ \E p \in psPending : p.kind = "PULL"
    /\ \E t \in 1 .. Len(task[Root]) : Occurrences(HeldBySync(Root), t) = 1


\* C23: every DO_GROUP the root has sent to a non-root, received or still
\* in flight, belongs to a group the root has already closed with
\* ncclGroupEnd; and between its iterations the root has sent exactly one
\* DO_GROUP for every entry it has handed to SyncNccl, none for an iteration
\* that pulled nothing.
C23_GroupEndBeforeDoGroup ==
    \A r \in NonRoots :
        LET sent == GroupSignals(chan[r]) + Len(ncclLog[r])
        IN  /\ sent <= Len(ncclLog[Root])
            /\ rootOpen = <<>> => sent = Len(ncclLog[Root])


\* the signals of one kind that rank r has sent to the root (the root never
\* takes a signal off its channel, which therefore holds all of them)
SentBy(r, kind) ==
    SelectSeq(chan[Root], LAMBDA m : m.src = r /\ m.signal = kind)
\* the items of rank r a Coordinate loop has dequeued and signalled
Signalled(r, op) ==
    {t \in 1 .. Len(task[r]) : Passed(r, t, op) /\ coordHold[r][op] # t}

\* C22: for every non-root and both Coordinate stages, the signals of the
\* stage's kind the rank has sent to the root are as many as the items the
\* stage has dequeued and signalled, every such item is on or past the next
\* stage's queue, and for every 64-bit key the signals carrying that key are
\* as many as the signalled items with that key: a signal's key is its
\* item's key, and different keys give different signal keys.
C22_ReadySignalCarriesKey ==
    \A r \in NonRoots : \A op \in {CR, CB} :
        LET sigs == SentBy(r, ReadySignal(op))
            items == Signalled(r, op)
        IN  /\ Len(sigs) = Cardinality(items)
            /\ \A k \in Range(keyList) :
                   Cardinality({i \in 1 .. Len(sigs) : FromInt(sigs[i].key) = k})
                     = Cardinality({t \in items : task[r][t].key = k})


\* C25: for every tensor size, also of 2^31 and of 2^32 bytes and more,
\* EnqueueTensor ends no process; partition i (0-based) starts at i*B and
\* there are ceil(S / B) partitions; the running sum of EnqueueTensor is the
\* number of bytes of the items enqueued so far; and the call returns with
\* the sum equal to the tensor size.
C25_NoWrapAround ==
    \A r \in Ranks :
        /\ aborted[r] = ""
        /\ Partitioned(r) =>
               /\ Len(parts[r]) = CeilDiv(tsize, bound)
               /\ \A i \in 1 .. Len(parts[r]) : parts[r][i].offset = (i - 1) * bound
               /\ accum[r] = SumLen(task[r])
               /\ ~ENABLED NextEnqueue => (enq[r] = "done" /\ accum[r] = tsize)


\* the push and pull requests in flight that read or write window w of the
\* pinned host buffer
PsAccess(w) ==
    {p \in psPending : /\ task[Root][p.t].device # CPU_DEVICE_ID
                       /\ WindowOf(task[Root][p.t]) = w}

\* this step is the copy loop q taking an item of window w
CopyStep(q, w) ==
    /\ queue[Root][q] # <<>>
    /\ queue'[Root][q] = Tail(queue[Root][q])
    /\ task[Root][Head(queue[Root][q])].device # CPU_DEVICE_ID
    /\ WindowOf(task[Root][Head(queue[Root][q])]) = w

\* C21: at any moment at most one stage accesses a window of the pinned host
\* buffer, over all the items in flight, those of a second enqueue of the
\* tensor included: never two push or pull requests of one window in flight,
\* and no copy to or from a window while a push or pull of it is in flight.
C21_OneAccessPerWindow ==
    /\ [](\A w \in 1 .. Len(keyList) : Cardinality(PsAccess(w)) <= 1)
    /\ [][\A w \in 1 .. Len(keyList), q \in {"COPYD2H", "COPYH2D"} :
             CopyStep(q, w) => PsAccess(w) = {}]_vars

====
